---- MODULE Spec2Model ----
(***************************************************************************)
(* Model of the hedging strategy core of weaver-vercel: State (state.py),  *)
(* the strategy functions (strategy.py) and the evaluation cycle main_loop *)
(* (main.py).                                                              *)
(*                                                                         *)
(* Python floats are modelled as exact rationals [n, d] in lowest terms,   *)
(* so every product, quotient and comparison of the code is computed the   *)
(* way the code computes it, without rounding.                             *)
(***************************************************************************)
EXTENDS Integers, Sequences, FiniteSets, TLC

VARIABLES
    state,   \* the State object owned by the driver (state.py)
    pc,      \* position inside main_loop: "idle", "hedge", "buy", "rebalance", "stopped"
    now,     \* last reading of the wall clock (datetime.now())
    cycles,  \* number of evaluation cycles started
    closes,  \* number of close_hedge calls made between cycles
    pre,     \* history: the State before the last step
    op,      \* history: the function the last step ran
    arg,     \* history: the arguments of the last call (the tier of close_hedge), else 0
    closed,  \* history: the tiers the last step passed to close_hedge, in call order
    ret,     \* history: the value the last step's function returned
    err,     \* history: the exception the last step's function raised, or "none"
    calls,   \* history: the functions run by the current (or last) evaluation cycle
    prev,    \* history: <<op, arg>> of the step before the last
    executor, \* the Executor object (executor.py)
    exchange, \* the exchange account and the order the Executor submitted
    web      \* api.py: message_queue, the websocket client and what it was sent

\* the variables outside the strategy: executor.py and api.py
io == <<executor, exchange, web>>

vars == <<state, pc, now, cycles, closes, pre, op, arg, closed, ret, err, calls, prev,
          executor, exchange, web>>

----------------------------------------------------------------------------
(* Bounds of the model *)

MaxCycles == 2
MaxCloses == 2
MaxClock == 1

(* Inputs *)
InitPrices == {100}
Deposits == {800}
Prices == {20, 92, 93, 95, 97, 99, 100, 101, 102}

----------------------------------------------------------------------------
(* Exact rational arithmetic standing for Python float arithmetic *)

Abs(x) == IF x < 0 THEN -x ELSE x

RECURSIVE GCD(_, _)
GCD(a, b) == IF b = 0 THEN a ELSE GCD(b, a % b)

Rat(n, d) ==
    LET g == GCD(Abs(n), Abs(d))
        s == IF d < 0 THEN -1 ELSE 1
    IN [n |-> s * (n \div g), d |-> s * (d \div g)]

R(n) == [n |-> n, d |-> 1]
Zero == R(0)

RNeg(a) == [n |-> -a.n, d |-> a.d]

RAdd(a, b) ==
    LET g == GCD(a.d, b.d)
    IN Rat(a.n * (b.d \div g) + b.n * (a.d \div g), (a.d \div g) * b.d)

RSub(a, b) == RAdd(a, RNeg(b))

RMul(a, b) ==
    LET g1 == GCD(Abs(a.n), b.d)
        g2 == GCD(Abs(b.n), a.d)
    IN IF a.n = 0 \/ b.n = 0 THEN Zero
       ELSE [n |-> (a.n \div g1) * (b.n \div g2), d |-> (a.d \div g2) * (b.d \div g1)]

\* a / b for b # 0
RDiv(a, b) == RMul(a, Rat(b.d, b.n))

RLt(a, b) ==
    LET g == GCD(a.d, b.d)
    IN a.n * (b.d \div g) < b.n * (a.d \div g)

RLe(a, b) == ~RLt(b, a)

----------------------------------------------------------------------------
(* config.py *)

FUNDING_RATE == Rat(1, 10000)
HOURS_PER_FUNDING == 8
MAX_LEVERAGE == 10
UPPER_BOUND_MULT == Rat(106, 100)
LOWER_BOUND_MULT == Rat(94, 100)
BUFFER_MULT == Rat(92, 100)
SPOT_ALLOCATION == Rat(75, 100)
HEDGE_ALLOCATION == Rat(25, 100)

----------------------------------------------------------------------------
(* state.py *)

\* the keys of the per-tier dicts, in insertion order
Keys == <<"h1", "h2", "h3">>
KeySet == {"h1", "h2", "h3"}

\* f'h{i}'
HedgeKey(i) == Keys[i]

\* None; a datetime t is <<t>>
None == <<>>

\* State.__init__
StateInit ==
    [entry_price |-> Zero, current_price |-> Zero, deposit |-> Zero,
     upper |-> Zero, lower |-> Zero, buffer |-> Zero,
     initial_eth |-> Zero, current_eth |-> Zero, current_usd |-> Zero,
     hedges |-> <<>>, prev_hedges |-> <<>>,
     hedge_levels |-> <<>>,
     hedge_sizes |-> [k \in KeySet |-> Zero],
     hedge_states |-> [k \in KeySet |-> FALSE],
     hedge_entries |-> [k \in KeySet |-> Zero],
     hedge_entry_times |-> [k \in KeySet |-> None],
     total_spot_volume |-> Zero, total_futures_volume |-> Zero,
     status |-> "INITIALIZING"]

----------------------------------------------------------------------------
(* strategy.py *)

\* initialize_strategy putting the whole spot allocation into the base asset
initialize_strategy_all_in_eth(current_price, deposit) ==
    LET spot_allocation == RMul(deposit, SPOT_ALLOCATION)
        initial_eth == RDiv(spot_allocation, current_price)
    IN [StateInit EXCEPT
           !.entry_price = current_price,
           !.current_price = current_price,
           !.deposit = deposit,
           !.upper = RMul(current_price, UPPER_BOUND_MULT),
           !.lower = RMul(current_price, LOWER_BOUND_MULT),
           !.buffer = RMul(current_price, BUFFER_MULT),
           !.initial_eth = initial_eth,
           !.current_eth = initial_eth,
           !.current_usd = Zero,
           !.hedge_levels = [k \in KeySet |->
                                RMul(current_price,
                                     CASE k = "h1" -> Rat(98, 100)
                                       [] k = "h2" -> Rat(96, 100)
                                       [] k = "h3" -> Rat(94, 100))]]

initialize_strategy(current_price, deposit) ==
    LET spot_allocation == RMul(deposit, SPOT_ALLOCATION)
        initial_eth == RDiv(RMul(spot_allocation, Rat(1, 2)), current_price)
    IN [StateInit EXCEPT
           !.entry_price = current_price,
           !.current_price = current_price,
           !.deposit = deposit,
           !.upper = RMul(current_price, UPPER_BOUND_MULT),
           !.lower = RMul(current_price, LOWER_BOUND_MULT),
           !.buffer = RMul(current_price, BUFFER_MULT),
           !.initial_eth = initial_eth,
           !.current_eth = initial_eth,
           !.current_usd = RMul(spot_allocation, Rat(1, 2)),
           !.hedge_levels = [k \in KeySet |->
                                RMul(current_price,
                                     CASE k = "h1" -> Rat(98, 100)
                                       [] k = "h2" -> Rat(96, 100)
                                       [] k = "h3" -> Rat(94, 100))]]

\* validate_leverage measuring the notional against the whole deposit
validate_leverage_whole_deposit(s) ==
    LET term(i) == RMul(s.hedge_sizes[Keys[i]], s.hedge_levels[HedgeKey(i)])
        total_position_value == RAdd(RAdd(term(1), term(2)), term(3))
        hedge_allocation == s.deposit
    IN IF hedge_allocation = Zero THEN "ZeroDivisionError"
       ELSE IF RLt(R(MAX_LEVERAGE), RDiv(total_position_value, hedge_allocation))
            THEN "ValueError"
            ELSE "none"

\* the exception validate_leverage raises on s, or "none"
validate_leverage(s) ==
    LET term(i) == RMul(s.hedge_sizes[Keys[i]], s.hedge_levels[HedgeKey(i)])
        total_position_value == RAdd(RAdd(term(1), term(2)), term(3))
        hedge_allocation == RMul(s.deposit, HEDGE_ALLOCATION)
    IN IF hedge_allocation = Zero THEN "ZeroDivisionError"
       ELSE IF RLt(R(MAX_LEVERAGE), RDiv(total_position_value, hedge_allocation))
            THEN "ValueError"
            ELSE "none"

\* calculate_hedge_sizes measuring the loss from entry_price, not current_price
calculate_hedge_sizes_from_entry(s) ==
    LET max_loss == RMul(s.current_eth, RSub(s.entry_price, s.buffer))
        weight(k) == CASE k = "h1" -> Rat(2, 10)
                       [] k = "h2" -> Rat(3, 10)
                       [] k = "h3" -> Rat(5, 10)
        width(k) == RSub(s.hedge_levels[k], s.buffer)
    IN IF \E k \in KeySet : width(k) = Zero
       THEN [state |-> s, err |-> "ZeroDivisionError"]
       ELSE LET s1 == [s EXCEPT !.hedge_sizes =
                          [k \in KeySet |-> RDiv(RMul(max_loss, weight(k)), width(k))]]
            IN [state |-> s1, err |-> validate_leverage(s1)]

\* [state |-> the State as calculate_hedge_sizes leaves it, err |-> its exception]
calculate_hedge_sizes(s) ==
    LET max_loss == RMul(s.current_eth, RSub(s.current_price, s.buffer))
        weight(k) == CASE k = "h1" -> Rat(2, 10)
                       [] k = "h2" -> Rat(3, 10)
                       [] k = "h3" -> Rat(5, 10)
        width(k) == RSub(s.hedge_levels[k], s.buffer)
    IN IF \E k \in KeySet : width(k) = Zero
       THEN [state |-> s, err |-> "ZeroDivisionError"]
       ELSE LET s1 == [s EXCEPT !.hedge_sizes =
                          [k \in KeySet |-> RDiv(RMul(max_loss, weight(k)), width(k))]]
            IN [state |-> s1, err |-> validate_leverage(s1)]

\* open_hedge that records no entry time
open_hedge_without_time(s, hedge_num, t) ==
    LET hedge_key == HedgeKey(hedge_num)
        position_value == RMul(s.hedge_sizes[hedge_key], s.current_price)
    IN [s EXCEPT !.hedge_states[hedge_key] = TRUE,
                 !.hedge_entries[hedge_key] = s.current_price,
                 !.total_futures_volume = RAdd(@, position_value)]

\* open_hedge, with t the value datetime.now() returns
open_hedge(s, hedge_num, t) ==
    LET hedge_key == HedgeKey(hedge_num)
        position_value == RMul(s.hedge_sizes[hedge_key], s.current_price)
    IN [s EXCEPT !.hedge_states[hedge_key] = TRUE,
                 !.hedge_entries[hedge_key] = s.current_price,
                 !.hedge_entry_times[hedge_key] = <<t>>,
                 !.total_futures_volume = RAdd(@, position_value)]

\* the test of manage_hedges' loop body without the check of the active flag
ShouldOpen_ignoring_active(s, i) ==
    RLe(s.current_price, s.hedge_levels[HedgeKey(i)])

\* the test of manage_hedges' loop body for tier i
ShouldOpen(s, i) ==
    /\ RLe(s.current_price, s.hedge_levels[HedgeKey(i)])
    /\ ~s.hedge_states[HedgeKey(i)]

\* manage_hedges leaving its loop after the first tier it opens
manage_hedges_first_only(s, t) ==
    IF ShouldOpen(s, 1) THEN open_hedge(s, 1, t[1])
    ELSE IF ShouldOpen(s, 2) THEN open_hedge(s, 2, t[2])
    ELSE IF ShouldOpen(s, 3) THEN open_hedge(s, 3, t[3])
    ELSE s

\* manage_hedges, with t[i] the clock reading of the i-th iteration's open_hedge
manage_hedges(s, t) ==
    LET body(x, i) == IF ShouldOpen(x, i) THEN open_hedge(x, i, t[i]) ELSE x
    IN body(body(body(s, 1), 2), 3)

\* close_hedge without the test of the active flag
close_hedge_unguarded(s, hedge_num) ==
    LET hedge_key == HedgeKey(hedge_num)
        size == s.hedge_sizes[hedge_key]
        entry_price == s.hedge_entries[hedge_key]
        pnl == RMul(size, RSub(entry_price, s.current_price))
    IN [state |-> [s EXCEPT !.hedge_states[hedge_key] = FALSE,
                            !.hedge_sizes[hedge_key] = Zero,
                            !.hedge_entries[hedge_key] = Zero,
                            !.hedge_entry_times[hedge_key] = None],
        ret |-> pnl]

\* close_hedge with the P&L of a long position
close_hedge_long_pnl(s, hedge_num) ==
    LET hedge_key == HedgeKey(hedge_num)
    IN IF s.hedge_states[hedge_key]
       THEN LET size == s.hedge_sizes[hedge_key]
                entry_price == s.hedge_entries[hedge_key]
                pnl == RMul(size, RSub(s.current_price, entry_price))
            IN [state |-> [s EXCEPT !.hedge_states[hedge_key] = FALSE,
                                    !.hedge_sizes[hedge_key] = Zero,
                                    !.hedge_entries[hedge_key] = Zero,
                                    !.hedge_entry_times[hedge_key] = None],
                ret |-> pnl]
       ELSE [state |-> s, ret |-> Zero]

\* [state |-> the State after close_hedge, ret |-> the P&L it returns]
close_hedge(s, hedge_num) ==
    LET hedge_key == HedgeKey(hedge_num)
    IN IF s.hedge_states[hedge_key]
       THEN LET size == s.hedge_sizes[hedge_key]
                entry_price == s.hedge_entries[hedge_key]
                pnl == RMul(size, RSub(entry_price, s.current_price))
            IN [state |-> [s EXCEPT !.hedge_states[hedge_key] = FALSE,
                                    !.hedge_sizes[hedge_key] = Zero,
                                    !.hedge_entries[hedge_key] = Zero,
                                    !.hedge_entry_times[hedge_key] = None],
                ret |-> pnl]
       ELSE [state |-> s, ret |-> Zero]

\* buy_on_lower adding the amount of base asset bought to the spot volume
buy_on_lower_volume_in_eth(s) ==
    LET eth_to_buy == RDiv(s.current_usd, s.current_price)
        s1 == [s EXCEPT !.current_eth = RAdd(@, eth_to_buy),
                        !.current_usd = Zero,
                        !.total_spot_volume = RAdd(@, eth_to_buy)]
    IN calculate_hedge_sizes(s1)

\* [state, err] after buy_on_lower; current_price # 0
buy_on_lower(s) ==
    LET eth_to_buy == RDiv(s.current_usd, s.current_price)
        s1 == [s EXCEPT !.current_eth = RAdd(@, eth_to_buy),
                        !.current_usd = Zero,
                        !.total_spot_volume = RAdd(@, RMul(eth_to_buy, s.current_price))]
    IN calculate_hedge_sizes(s1)

\* rebalance_at_entry closing tier 2 before tier 3
rebalance_at_entry_closing_2_first(s) ==
    LET eth_to_sell == RMul(s.current_eth, Rat(1, 2))
        sale_proceeds == RMul(eth_to_sell, s.current_price)
        s1 == [s EXCEPT !.current_eth = RSub(@, eth_to_sell),
                        !.current_usd = RAdd(@, sale_proceeds),
                        !.total_spot_volume = RAdd(@, sale_proceeds)]
        s2 == close_hedge(s1, 2).state
        s3 == close_hedge(s2, 3).state
        r == calculate_hedge_sizes(s3)
    IN [state |-> r.state, err |-> r.err, closed |-> <<2, 3>>]

\* rebalance_at_entry taking the sale proceeds out of the cash
rebalance_at_entry_paying_proceeds(s) ==
    LET eth_to_sell == RMul(s.current_eth, Rat(1, 2))
        sale_proceeds == RMul(eth_to_sell, s.current_price)
        s1 == [s EXCEPT !.current_eth = RSub(@, eth_to_sell),
                        !.current_usd = RSub(@, sale_proceeds),
                        !.total_spot_volume = RAdd(@, sale_proceeds)]
        s2 == close_hedge(s1, 3).state
        s3 == close_hedge(s2, 2).state
        r == calculate_hedge_sizes(s3)
    IN [state |-> r.state, err |-> r.err, closed |-> <<3, 2>>]

\* rebalance_at_entry moving entry_price to the price of the rebalance
rebalance_at_entry_reanchoring(s) ==
    LET eth_to_sell == RMul(s.current_eth, Rat(1, 2))
        sale_proceeds == RMul(eth_to_sell, s.current_price)
        s1 == [s EXCEPT !.current_eth = RSub(@, eth_to_sell),
                        !.current_usd = RAdd(@, sale_proceeds),
                        !.total_spot_volume = RAdd(@, sale_proceeds),
                        !.entry_price = s.current_price]
        s2 == close_hedge(s1, 3).state
        s3 == close_hedge(s2, 2).state
        r == calculate_hedge_sizes(s3)
    IN [state |-> r.state, err |-> r.err, closed |-> <<3, 2>>]

\* rebalance_at_entry closing tiers 3 and 1
rebalance_at_entry_closing_1_and_3(s) ==
    LET eth_to_sell == RMul(s.current_eth, Rat(1, 2))
        sale_proceeds == RMul(eth_to_sell, s.current_price)
        s1 == [s EXCEPT !.current_eth = RSub(@, eth_to_sell),
                        !.current_usd = RAdd(@, sale_proceeds),
                        !.total_spot_volume = RAdd(@, sale_proceeds)]
        s2 == close_hedge(s1, 3).state
        s3 == close_hedge(s2, 1).state
        r == calculate_hedge_sizes(s3)
    IN [state |-> r.state, err |-> r.err, closed |-> <<3, 1>>]

\* [state, err] after rebalance_at_entry, and the tiers it passed to
\* close_hedge, in call order
rebalance_at_entry(s) ==
    LET eth_to_sell == RMul(s.current_eth, Rat(1, 2))
        sale_proceeds == RMul(eth_to_sell, s.current_price)
        s1 == [s EXCEPT !.current_eth = RSub(@, eth_to_sell),
                        !.current_usd = RAdd(@, sale_proceeds),
                        !.total_spot_volume = RAdd(@, sale_proceeds)]
        s2 == close_hedge(s1, 3).state
        s3 == close_hedge(s2, 2).state
        r == calculate_hedge_sizes(s3)
    IN [state |-> r.state, err |-> r.err, closed |-> <<3, 2>>]

\* exit_all_positions returning the value of the holdings, not the gain
exit_all_positions_without_deposit(s) ==
    LET c1 == close_hedge(s, 1)
        c2 == close_hedge(c1.state, 2)
        c3 == close_hedge(c2.state, 3)
        s3 == c3.state
        hedges_pnl == RAdd(RAdd(RAdd(Zero, c1.ret), c2.ret), c3.ret)
        eth_value == RMul(s3.current_eth, s3.current_price)
    IN [state |-> s3,
        ret |-> RAdd(hedges_pnl, RAdd(eth_value, s3.current_usd)),
        closed |-> <<1, 2, 3>>]

\* [state, ret] after exit_all_positions, and the tiers it passed to
\* close_hedge, in call order
exit_all_positions(s) ==
    LET c1 == close_hedge(s, 1)
        c2 == close_hedge(c1.state, 2)
        c3 == close_hedge(c2.state, 3)
        s3 == c3.state
        hedges_pnl == RAdd(RAdd(RAdd(Zero, c1.ret), c2.ret), c3.ret)
        eth_value == RMul(s3.current_eth, s3.current_price)
    IN [state |-> s3,
        ret |-> RAdd(hedges_pnl, RSub(RAdd(eth_value, s3.current_usd), s3.deposit)),
        closed |-> <<1, 2, 3>>]

----------------------------------------------------------------------------
(* main.py: main_loop, one step per boundary action *)

HedgeGuard(s) == RLt(s.current_price, s.entry_price)
\* the buy-the-dip test with < for <=
BuyGuard_strict(s) == RLt(s.current_price, s.buffer)

\* state.current_price <= state.buffer
BuyGuard(s) == RLe(s.current_price, s.buffer)

\* the rebalance-at-entry test latched to a recovery above entry_price
RebalanceGuard_only_above_entry(s) ==
    /\ RLt(s.entry_price, s.current_price)
    /\ RLe(s.current_price, RMul(s.entry_price, Rat(101, 100)))

\* the rebalance-at-entry test without its lower bound
RebalanceGuard_without_lower_bound(s) ==
    RLe(s.current_price, RMul(s.entry_price, Rat(101, 100)))

\* state.buffer < state.current_price <= state.entry_price * 1.01
RebalanceGuard(s) ==
    /\ RLt(s.buffer, s.current_price)
    /\ RLe(s.current_price, RMul(s.entry_price, Rat(101, 100)))

\* the clock readings manage_hedges can get on s: one per open_hedge call,
\* none going backwards
Readings(s) ==
    {t \in [1..3 -> now..MaxClock] :
        /\ t[1] = IF ShouldOpen(s, 1) THEN t[1] ELSE now
        /\ \A i \in 2..3 : /\ t[i - 1] <= t[i]
                           /\ ShouldOpen(s, i) \/ t[i] = t[i - 1]}

\* the strategy runs without an Executor call, an order or a websocket client
IoUnused ==
    /\ executor = None
    /\ exchange = None
    /\ web = None

Step(name, tier, order) ==
    /\ pre' = state
    /\ op' = name
    /\ arg' = tier
    /\ closed' = order
    /\ prev' = <<op, arg>>

Init ==
    /\ IoUnused
    /\ \E p \in InitPrices, d \in Deposits : state = initialize_strategy(R(p), R(d))
    /\ pc = "idle"
    /\ now = 0
    /\ cycles = 0
    /\ closes = 0
    /\ pre = StateInit
    /\ op = "initialize_strategy"
    /\ arg = 0
    /\ closed = <<>>
    /\ ret = Zero
    /\ err = "none"
    /\ calls = <<>>
    /\ prev = <<"none", 0>>

\* main_loop is entered with a price: state.current_price = current_price
MainLoopBegin(p) ==
    /\ UNCHANGED io
    /\ pc = "idle"
    /\ cycles < MaxCycles
    /\ state' = [state EXCEPT !.current_price = R(p)]
    /\ pc' = "hedge"
    /\ cycles' = cycles + 1
    /\ Step("main_loop", 0, <<>>)
    /\ ret' = Zero
    /\ err' = "none"
    /\ calls' = <<>>
    /\ UNCHANGED <<now, closes>>

\* if state.current_price < state.entry_price: manage_hedges(state)
HedgeStep ==
    /\ UNCHANGED io
    /\ pc = "hedge"
    /\ IF HedgeGuard(state)
       THEN \E t \in Readings(state) :
               /\ state' = manage_hedges(state, t)
               /\ now' = t[3]
               /\ Step("manage_hedges", 0, <<>>)
               /\ calls' = Append(calls, "manage_hedges")
       ELSE /\ UNCHANGED <<state, now, calls>>
            /\ Step("skip", 0, <<>>)
    /\ pc' = "buy"
    /\ UNCHANGED <<cycles, closes, ret, err>>

\* if state.current_price <= state.buffer: buy_on_lower(state)
BuyStep ==
    /\ UNCHANGED io
    /\ pc = "buy"
    /\ IF BuyGuard(state)
       THEN LET r == buy_on_lower(state)
            IN /\ state' = r.state
               /\ err' = r.err
               /\ pc' = IF r.err = "none" THEN "rebalance" ELSE "idle"
               /\ Step("buy_on_lower", 0, <<>>)
               /\ calls' = Append(calls, "buy_on_lower")
       ELSE /\ UNCHANGED <<state, err, calls>>
            /\ pc' = "rebalance"
            /\ Step("skip", 0, <<>>)
    /\ UNCHANGED <<now, cycles, closes, ret>>

\* if state.buffer < state.current_price <= state.entry_price * 1.01:
\*     rebalance_at_entry(state)
RebalanceStep ==
    /\ UNCHANGED io
    /\ pc = "rebalance"
    /\ IF RebalanceGuard(state)
       THEN LET r == rebalance_at_entry(state)
            IN /\ state' = r.state
               /\ err' = r.err
               /\ Step("rebalance_at_entry", 0, r.closed)
               /\ calls' = Append(calls, "rebalance_at_entry")
       ELSE /\ UNCHANGED <<state, err, calls>>
            /\ Step("skip", 0, <<>>)
    /\ pc' = "idle"
    /\ UNCHANGED <<now, cycles, closes, ret>>

\* a call of close_hedge(state, hedge_num) between evaluation cycles
CloseHedge(hedge_num) ==
    /\ UNCHANGED io
    /\ pc = "idle"
    /\ closes < MaxCloses
    /\ closes' = closes + 1
    /\ LET r == close_hedge(state, hedge_num)
       IN /\ state' = r.state
          /\ ret' = r.ret
    /\ Step("close_hedge", hedge_num, <<hedge_num>>)
    /\ err' = "none"
    /\ UNCHANGED <<pc, now, cycles, calls>>

\* the call of exit_all_positions(state) at shutdown
ExitAll ==
    /\ UNCHANGED io
    /\ pc = "idle"
    /\ LET r == exit_all_positions(state)
       IN /\ state' = r.state
          /\ ret' = r.ret
          /\ Step("exit_all_positions", 0, r.closed)
    /\ err' = "none"
    /\ pc' = "stopped"
    /\ UNCHANGED <<now, cycles, closes, calls>>

Next ==
    \/ \E p \in Prices : MainLoopBegin(p)
    \/ HedgeStep
    \/ BuyStep
    \/ RebalanceStep
    \/ \E i \in 1..3 : CloseHedge(i)
    \/ ExitAll

Spec == Init /\ [][Next]_vars

----------------------------------------------------------------------------
(* initialize_strategy as a function of its arguments: the call is made    *)
(* with a price and a deposit of any sign, arg holds the two arguments.    *)

CallPrices == {-100, -1, 0, 1, 7, 50, 100, 333, 2000, 3607}
CallDeposits == {-800, -1, 0, 1, 100, 800, 1000, 2500}

InitCall ==
    /\ IoUnused
    /\ \E p \in CallPrices, d \in CallDeposits : arg = <<R(p), R(d)>>
    /\ state = StateInit
    /\ pc = "call"
    /\ now = 0
    /\ cycles = 0
    /\ closes = 0
    /\ pre = StateInit
    /\ op = "none"
    /\ closed = <<>>
    /\ ret = Zero
    /\ err = "none"
    /\ calls = <<>>
    /\ prev = <<"none", 0>>

\* initialize_strategy(arg[1], arg[2]): the caller's variable receives the
\* State it returns; the division by a zero current_price raises
InitializeStrategy ==
    /\ UNCHANGED io
    /\ pc = "call"
    /\ IF arg[1] = Zero
       THEN /\ err' = "ZeroDivisionError"
            /\ pc' = "raised"
            /\ state' = state
       ELSE /\ err' = "none"
            /\ pc' = "idle"
            /\ state' = initialize_strategy(arg[1], arg[2])
    /\ pre' = state
    /\ op' = "initialize_strategy"
    /\ prev' = <<op, 0>>
    /\ UNCHANGED <<now, cycles, closes, arg, closed, ret, calls>>

NextCall == InitializeStrategy

SpecCall == InitCall /\ [][NextCall]_vars

----------------------------------------------------------------------------
(* state.py: persistence of the State; analyzer.py: funding cost *)

\* the wall clock advances in ticks of half an hour
TickMinutes == 30

\* datetime.isoformat(): the text of a clock reading, as <<hours, minutes>>
isoformat(v) ==
    LET minutes == v[1] * TickMinutes
    IN <<minutes \div 60, minutes % 60>>

\* datetime.fromisoformat(): the clock reading a text denotes
fromisoformat(text) == <<(text[1] * 60 + text[2]) \div TickMinutes>>

\* StrategyState: the value of each member of the enumeration
StrategyStateValue ==
    [INITIALIZING |-> "initializing",
     SCANNING |-> "scanning",
     WAITING |-> "waiting",
     ENTERING_POSITION |-> "entering_position",
     IN_POSITION |-> "in_position",
     EXITING_POSITION |-> "exiting_position",
     HEDGING |-> "hedging",
     REBALANCING |-> "rebalancing",
     STOPPED |-> "stopped",
     ERROR |-> "error"]

\* StrategyState(value): the member that has the value
StrategyState(value) ==
    CHOOSE member \in DOMAIN StrategyStateValue : StrategyStateValue[member] = value

to_dict(s) ==
    [entry_price |-> s.entry_price,
     current_price |-> s.current_price,
     deposit |-> s.deposit,
     upper |-> s.upper,
     lower |-> s.lower,
     buffer |-> s.buffer,
     initial_eth |-> s.initial_eth,
     current_eth |-> s.current_eth,
     current_usd |-> s.current_usd,
     hedge_levels |-> s.hedge_levels,
     hedge_sizes |-> s.hedge_sizes,
     hedge_states |-> s.hedge_states,
     hedge_entries |-> s.hedge_entries,
     hedge_entry_times |->
         [k \in DOMAIN s.hedge_entry_times |->
             IF s.hedge_entry_times[k] # None
             THEN isoformat(s.hedge_entry_times[k]) ELSE None],
     total_spot_volume |-> s.total_spot_volume,
     total_futures_volume |-> s.total_futures_volume,
     status |-> StrategyStateValue[s.status]]

\* from_dict leaving the status State() starts with
from_dict_keeping_default_status(data) ==
    [StateInit EXCEPT
        !.entry_price = data.entry_price,
        !.current_price = data.current_price,
        !.deposit = data.deposit,
        !.upper = data.upper,
        !.lower = data.lower,
        !.buffer = data.buffer,
        !.initial_eth = data.initial_eth,
        !.current_eth = data.current_eth,
        !.current_usd = data.current_usd,
        !.hedge_levels = data.hedge_levels,
        !.hedge_sizes = data.hedge_sizes,
        !.hedge_states = data.hedge_states,
        !.hedge_entries = data.hedge_entries,
        !.hedge_entry_times =
            [k \in DOMAIN data.hedge_entry_times |->
                IF data.hedge_entry_times[k] # None
                THEN fromisoformat(data.hedge_entry_times[k]) ELSE None],
        !.total_spot_volume = data.total_spot_volume,
        !.total_futures_volume = data.total_futures_volume]

from_dict(data) ==
    [StateInit EXCEPT
        !.entry_price = data.entry_price,
        !.current_price = data.current_price,
        !.deposit = data.deposit,
        !.upper = data.upper,
        !.lower = data.lower,
        !.buffer = data.buffer,
        !.initial_eth = data.initial_eth,
        !.current_eth = data.current_eth,
        !.current_usd = data.current_usd,
        !.hedge_levels = data.hedge_levels,
        !.hedge_sizes = data.hedge_sizes,
        !.hedge_states = data.hedge_states,
        !.hedge_entries = data.hedge_entries,
        !.hedge_entry_times =
            [k \in DOMAIN data.hedge_entry_times |->
                IF data.hedge_entry_times[k] # None
                THEN fromisoformat(data.hedge_entry_times[k]) ELSE None],
        !.total_spot_volume = data.total_spot_volume,
        !.total_futures_volume = data.total_futures_volume,
        !.status = StrategyState(data.status)]

\* calculate_funding_cost charging every tier that has an entry time
calculate_funding_cost_ignoring_active(s, current_time) ==
    LET cost(hedge_num) ==
            LET hedge_key == HedgeKey(hedge_num)
                position_value == RMul(s.hedge_sizes[hedge_key], s.current_price)
                entry_time == s.hedge_entry_times[hedge_key]
            IN IF entry_time # None
               THEN LET hours_passed == Rat((current_time - entry_time[1]) * TickMinutes, 60)
                        funding_periods == RDiv(hours_passed, R(HOURS_PER_FUNDING))
                    IN RMul(RMul(position_value, FUNDING_RATE), funding_periods)
               ELSE Zero
    IN RAdd(RAdd(RAdd(Zero, cost(1)), cost(2)), cost(3))

\* calculate_funding_cost, with current_time the value datetime.now() returns
calculate_funding_cost(s, current_time) ==
    LET cost(hedge_num) ==
            LET hedge_key == HedgeKey(hedge_num)
                position_value == RMul(s.hedge_sizes[hedge_key], s.current_price)
                entry_time == s.hedge_entry_times[hedge_key]
            IN IF s.hedge_states[hedge_key] /\ entry_time # None
               THEN LET hours_passed == Rat((current_time - entry_time[1]) * TickMinutes, 60)
                        funding_periods == RDiv(hours_passed, R(HOURS_PER_FUNDING))
                    IN RMul(RMul(position_value, FUNDING_RATE), funding_periods)
               ELSE Zero
    IN RAdd(RAdd(RAdd(Zero, cost(1)), cost(2)), cost(3))

(* to_dict, from_dict and calculate_funding_cost take any State: the tiers'  *)
(* flags and entry times and the status are attributes any caller can set.  *)

StateBases ==
    {initialize_strategy(R(100), R(800)),
     calculate_hedge_sizes(initialize_strategy(R(100), R(800))).state}
StateTimes == {None, <<1>>, <<2>>}

InitState ==
    /\ IoUnused
    /\ \E base \in StateBases,
          flags \in [KeySet -> BOOLEAN],
          times \in [KeySet -> StateTimes],
          member \in DOMAIN StrategyStateValue :
            state = [base EXCEPT !.hedge_states = flags,
                                 !.hedge_entry_times = times,
                                 !.status = member]
    /\ pc = "state"
    /\ now = 2
    /\ cycles = 0
    /\ closes = 0
    /\ pre = StateInit
    /\ op = "none"
    /\ arg = 0
    /\ closed = <<>>
    /\ ret = Zero
    /\ err = "none"
    /\ calls = <<>>
    /\ prev = <<"none", 0>>

\* state = State.from_dict(state.to_dict())
RoundTrip ==
    /\ UNCHANGED io
    /\ pc = "state"
    /\ state' = from_dict(to_dict(state))
    /\ pc' = "done"
    /\ pre' = state
    /\ op' = "from_dict"
    /\ prev' = <<op, arg>>
    /\ UNCHANGED <<now, cycles, closes, arg, closed, ret, err, calls>>

\* calculate_funding_cost(state), its datetime.now() reading t
FundingCost(t) ==
    /\ UNCHANGED io
    /\ pc = "state"
    /\ now' = t
    /\ ret' = calculate_funding_cost(state, t)
    /\ pc' = "done"
    /\ pre' = state
    /\ op' = "calculate_funding_cost"
    /\ prev' = <<op, arg>>
    /\ UNCHANGED <<state, cycles, closes, arg, closed, err, calls>>

NextState ==
    \/ RoundTrip
    \/ \E t \in now..(now + 1) : FundingCost(t)

SpecState == InitState /\ [][NextState]_vars

----------------------------------------------------------------------------
(* analyzer.py: P&L; calculate_hedge_sizes and calculate_pnl as functions  *)
(* of the State they are given                                             *)

\* calculate_pnl dividing by the deposit whatever its sign
calculate_pnl_unguarded(s) ==
    LET current_value == RAdd(RMul(s.current_eth, s.current_price), s.current_usd)
        initial_value == s.deposit
        total_pnl == RSub(current_value, initial_value)
    IN IF initial_value = Zero
       THEN [total |-> total_pnl, percentage |-> Zero, err |-> "ZeroDivisionError"]
       ELSE [total |-> total_pnl,
             percentage |-> RMul(RDiv(total_pnl, initial_value), R(100)),
             err |-> "none"]

\* the dict calculate_pnl returns, and err: the exception it raises, or "none"
calculate_pnl(s) ==
    LET current_value == RAdd(RMul(s.current_eth, s.current_price), s.current_usd)
        initial_value == s.deposit
        total_pnl == RSub(current_value, initial_value)
    IN [total |-> total_pnl,
        percentage |-> IF RLt(Zero, initial_value)
                       THEN RMul(RDiv(total_pnl, initial_value), R(100))
                       ELSE Zero,
        err |-> "none"]

(* The States the two functions are applied to: the State of               *)
(* initialize_strategy(100, 800) with holdings, price, buffer and deposit   *)
(* set as update_balances, main_loop and from_dict can set them.            *)
EdgeHoldings == {0, 3, 18}
EdgeCash == {0, 300}
EdgePrices == {20, 92, 94, 100}
EdgeBuffers == {92, 94, 96}
EdgeDeposits == {-800, 0, 800}

InitEdge ==
    /\ IoUnused
    /\ \E e \in EdgeHoldings, u \in EdgeCash, p \in EdgePrices,
          b \in EdgeBuffers, d \in EdgeDeposits :
            state = [initialize_strategy(R(100), R(800)) EXCEPT
                        !.current_eth = R(e),
                        !.current_usd = R(u),
                        !.current_price = R(p),
                        !.buffer = R(b),
                        !.deposit = R(d)]
    /\ pc = "state"
    /\ now = 0
    /\ cycles = 0
    /\ closes = 0
    /\ pre = StateInit
    /\ op = "none"
    /\ arg = 0
    /\ closed = <<>>
    /\ ret = Zero
    /\ err = "none"
    /\ calls = <<>>
    /\ prev = <<"none", 0>>

\* pnl = calculate_pnl(state, initial_price)
CalculatePnl ==
    /\ UNCHANGED io
    /\ pc = "state"
    /\ LET r == calculate_pnl(state)
       IN /\ ret' = [total |-> r.total, percentage |-> r.percentage]
          /\ err' = r.err
    /\ pc' = "done"
    /\ pre' = state
    /\ op' = "calculate_pnl"
    /\ prev' = <<op, arg>>
    /\ UNCHANGED <<state, now, cycles, closes, arg, closed, calls>>

\* calculate_hedge_sizes(state)
CalculateHedgeSizes ==
    /\ UNCHANGED io
    /\ pc = "state"
    /\ LET r == calculate_hedge_sizes(state)
       IN /\ state' = r.state
          /\ err' = r.err
    /\ pc' = "done"
    /\ pre' = state
    /\ op' = "calculate_hedge_sizes"
    /\ prev' = <<op, arg>>
    /\ UNCHANGED <<now, cycles, closes, arg, closed, ret, calls>>

NextEdge ==
    \/ CalculatePnl
    \/ CalculateHedgeSizes

SpecEdge == InitEdge /\ [][NextEdge]_vars

----------------------------------------------------------------------------
(* main.py: the trading loop of main(). One iteration asks scan_market for *)
(* the price and, when there is one, refreshes the balances if the status   *)
(* interval has passed and runs main_loop. scan_market is a plain function: *)
(* awaiting its result raises TypeError, which the loop's handler catches;  *)
(* the iteration is modelled both with the value delivered and with the     *)
(* TypeError.                                                               *)

\* what exchange.fetch_ticker answers: None when it raises, else <<last>>
Tickers ==
    {None} \cup {<<R(p)>> : p \in {0, 20, 92, 95, 102}} \cup {<<Rat(201, 2)>>}

\* what get_balance answers, <<usdt_balance, eth_balance>>
ExchangeBalances == {<<Zero, Zero>>, <<R(300), R(3)>>}

\* get_current_price: None or <<price>>
get_current_price(ticker) == IF ticker = None THEN None ELSE <<ticker[1]>>

\* scan_market: None or <<price>>
scan_market(ticker) ==
    LET current_price == get_current_price(ticker)
    IN IF current_price = <<Zero>> THEN None ELSE current_price

\* not current_price
NotPrice(current_price) == current_price = None \/ current_price = <<Zero>>

update_balances(s, eth_balance, usdt_balance) ==
    [s EXCEPT !.current_eth = eth_balance, !.current_usd = usdt_balance]

\* a handler of the trading loop that ends the loop
TradingLoopHandler_returning(e) == "stopped"

\* the except clause of the trading loop: sleep, then continue
TradingLoopHandler(e) == "idle"

\* the iteration is left without a call of main_loop
SkipIteration(current_price, e, after) ==
    /\ pc' = after
    /\ err' = e
    /\ pre' = state
    /\ op' = "scan_market"
    /\ arg' = current_price
    /\ closed' = <<>>
    /\ prev' = <<op, 0>>
    /\ calls' = <<>>
    /\ UNCHANGED <<state, now, cycles, closes, ret>>

DriverIteration(ticker, awaitable, due, balances) ==
    /\ UNCHANGED io
    /\ pc = "idle"
    /\ LET current_price == scan_market(ticker)
       IN IF ~awaitable
          THEN SkipIteration(current_price, "TypeError", TradingLoopHandler("TypeError"))
          ELSE IF NotPrice(current_price)
          THEN SkipIteration(current_price, "none", "idle")
          ELSE /\ cycles < MaxCycles
               /\ LET refreshed == IF due
                                   THEN update_balances(state, balances[2], balances[1])
                                   ELSE state
                  IN state' = [refreshed EXCEPT !.current_price = current_price[1]]
               /\ pc' = "hedge"
               /\ cycles' = cycles + 1
               /\ pre' = state
               /\ op' = "main_loop"
               /\ arg' = current_price
               /\ closed' = <<>>
               /\ prev' = <<op, 0>>
               /\ ret' = Zero
               /\ err' = "none"
               /\ calls' = <<>>
               /\ UNCHANGED <<now, closes>>

NextDriver ==
    \/ \E ticker \in Tickers, awaitable \in BOOLEAN, due \in BOOLEAN,
          balances \in ExchangeBalances :
            DriverIteration(ticker, awaitable, due, balances)
    \/ HedgeStep
    \/ BuyStep
    \/ RebalanceStep

SpecDriver == Init /\ [][NextDriver]_vars

----------------------------------------------------------------------------
(* main_loop called in consecutive cycles at prices between buffer and     *)
(* entry_price * 1.01, from the State of initialize_strategy               *)

RecoveryPrices == {93, 95, 97, 99, 100, 101}

NextRecovery ==
    \/ \E p \in RecoveryPrices : MainLoopBegin(p)
    \/ HedgeStep
    \/ BuyStep
    \/ RebalanceStep

SpecRecovery == Init /\ [][NextRecovery]_vars

----------------------------------------------------------------------------
(* executor.py: Executor._create_market_order(side, amount). arg holds the *)
(* two arguments, exchange the account and the order as the exchange sees   *)
(* them, pc the position in the method: "call", "poll" (before              *)
(* fetch_order), "sleep" (in time.sleep), "returned" or "raised".           *)

OrderSides == {"buy", "sell"}
OrderAmounts == {1, 3}
QuoteBalances == {0, 500}
BaseBalances == {0, 3}
\* the final statuses an exchange reports for an order
FinalStatuses == {"closed", "canceled", "rejected", "expired"}
\* order_status['fee']: None or <<cost>>
Fees == {None, <<R(1)>>}

InitOrder ==
    /\ \E side \in OrderSides, amount \in OrderAmounts,
          quote \in QuoteBalances, base \in BaseBalances :
            /\ arg = <<side, R(amount)>>
            /\ exchange = [usdt |-> R(quote), eth |-> R(base), last |-> R(100),
                           status |-> "none", fee |-> None]
    /\ executor = [total_commission |-> Zero]
    /\ web = None
    /\ state = StateInit
    /\ pc = "call"
    /\ now = 0
    /\ cycles = 0
    /\ closes = 0
    /\ pre = StateInit
    /\ op = "none"
    /\ closed = <<>>
    /\ ret = Zero
    /\ err = "none"
    /\ calls = <<>>
    /\ prev = <<"none", 0>>

\* the method up to create_order: price, balance check, order submitted
CreateMarketOrder ==
    /\ pc = "call"
    /\ LET side == arg[1]
           amount == arg[2]
           current_price == exchange.last
           insufficient ==
               IF side = "buy"
               THEN RLt(exchange.usdt, RMul(amount, current_price))
               ELSE RLt(exchange.eth, amount)
       IN IF insufficient
          THEN /\ err' = "ValueError"
               /\ pc' = "raised"
               /\ UNCHANGED exchange
          ELSE /\ exchange' = [exchange EXCEPT !.status = "open"]
               /\ pc' = "poll"
               /\ UNCHANGED err
    /\ op' = "create_order"
    /\ UNCHANGED <<state, now, cycles, closes, pre, arg, closed, ret, calls, prev,
                   executor, web>>

\* the exchange brings the order to a final status
ExchangeSettles(final, fee) ==
    /\ exchange.status = "open"
    /\ exchange' = [exchange EXCEPT !.status = final, !.fee = fee]
    /\ UNCHANGED <<state, pc, now, cycles, closes, pre, op, arg, closed, ret, err,
                   calls, prev, executor, web>>

\* one round of the loop: fetch_order and the test of its status; a closed
\* order ends the loop, its fee is added and the status returned
FetchOrder ==
    /\ pc = "poll"
    /\ IF exchange.status = "closed"
       THEN /\ executor' =
                 IF exchange.fee # None
                 THEN [executor EXCEPT !.total_commission = RAdd(@, exchange.fee[1])]
                 ELSE executor
            /\ ret' = [status |-> exchange.status, fee |-> exchange.fee]
            /\ pc' = "returned"
       ELSE /\ pc' = "sleep"
            /\ UNCHANGED <<executor, ret>>
    /\ op' = "fetch_order"
    /\ UNCHANGED <<state, now, cycles, closes, pre, arg, closed, err, calls, prev,
                   exchange, web>>

\* time.sleep(0.5) returns
Sleep ==
    /\ pc = "sleep"
    /\ pc' = "poll"
    /\ op' = "sleep"
    /\ UNCHANGED <<state, now, cycles, closes, pre, arg, closed, ret, err, calls, prev,
                   executor, exchange, web>>

\* a call to the exchange raises; the method prints and re-raises
ExchangeCallRaises ==
    /\ pc \in {"call", "poll"}
    /\ pc' = "raised"
    /\ err' = "NetworkError"
    /\ op' = "raise"
    /\ UNCHANGED <<state, now, cycles, closes, pre, arg, closed, ret, calls, prev,
                   executor, exchange, web>>

NextOrder ==
    \/ CreateMarketOrder
    \/ \E final \in FinalStatuses, fee \in Fees : ExchangeSettles(final, fee)
    \/ FetchOrder
    \/ Sleep
    \/ ExchangeCallRaises

\* the thread that runs the method keeps running, the exchange settles
\* every order; a call to the exchange need not ever raise
SpecOrder ==
    /\ InitOrder
    /\ [][NextOrder]_vars
    /\ WF_vars(CreateMarketOrder)
    /\ WF_vars(FetchOrder)
    /\ WF_vars(Sleep)
    /\ WF_vars(\E final \in FinalStatuses, fee \in Fees : ExchangeSettles(final, fee))

----------------------------------------------------------------------------
(* api.py: the websocket handler and the queue the bot's output goes to.   *)
(* web.queue is message_queue, web.inbox the frame the client has sent and *)
(* the handler has not yet received, web.sent the JSON messages sent to    *)
(* the client, web.printed the lines put on the queue so far, web.other    *)
(* whether the client has sent anything but a ping. pc is the handler's    *)
(* position: "accept", "receive" (in receive_json), "drain" (in the loop   *)
(* over the queue) or "closed".                                            *)

MaxMessages == 2
Whitespace == {" ", "\n"}
\* the strings written to sys.stdout, as sequences of characters
Texts == {<<"\n">>, <<"a">>, <<" ", "b", "\n">>, <<"c", " ">>}
\* the frames a client sends: a ping, another JSON message, invalid JSON
Frames == {"ping", "other", "invalid"}

RECURSIVE lstrip(_)
lstrip(t) == IF t # <<>> /\ Head(t) \in Whitespace THEN lstrip(Tail(t)) ELSE t

RECURSIVE rstrip(_)
rstrip(t) ==
    IF t # <<>> /\ t[Len(t)] \in Whitespace THEN rstrip(SubSeq(t, 1, Len(t) - 1)) ELSE t

strip(t) == rstrip(lstrip(t))

\* the message TerminalPrinter.write puts on the queue for a text
Printed(text) == [message |-> strip(text), error |-> FALSE]
Welcome == [message |-> <<"w">>, error |-> FALSE]
Ping == [type |-> "ping"]
Pong == [type |-> "pong"]

InitWeb ==
    /\ web = [queue |-> <<>>, inbox |-> <<>>, sent |-> {}, printed |-> {},
              connected |-> FALSE, other |-> FALSE]
    /\ executor = None
    /\ exchange = None
    /\ state = StateInit
    /\ pc = "accept"
    /\ now = 0
    /\ cycles = 0
    /\ closes = 0
    /\ pre = StateInit
    /\ op = "none"
    /\ arg = 0
    /\ closed = <<>>
    /\ ret = Zero
    /\ err = "none"
    /\ calls = <<>>
    /\ prev = <<"none", 0>>

WebUnchanged ==
    UNCHANGED <<state, now, cycles, closes, pre, arg, closed, ret, err, calls, prev,
                executor, exchange>>

\* TerminalPrinter.write(text): a text that is not blank is put on the queue
\* (each line is printed once, at most MaxMessages lines)
BotPrint(text) ==
    /\ strip(text) \notin web.printed
    /\ Cardinality(web.printed) < MaxMessages
    /\ web' = IF strip(text) # <<>>
              THEN [web EXCEPT !.queue = Append(@, Printed(text)),
                               !.printed = @ \cup {strip(text)}]
              ELSE web
    /\ UNCHANGED <<pc, op>>
    /\ WebUnchanged

\* websocket.accept(), the welcome message, the keep-alive task created
Accept ==
    /\ pc = "accept"
    /\ web' = [web EXCEPT !.connected = TRUE, !.sent = @ \cup {Welcome}]
    /\ pc' = "receive"
    /\ op' = "accept"
    /\ WebUnchanged

\* keep_alive: the server's own ping to a connected client
KeepAlive ==
    /\ pc \in {"receive", "drain"}
    /\ web.connected
    /\ web' = [web EXCEPT !.sent = @ \cup {Ping}]
    /\ op' = "keep_alive"
    /\ UNCHANGED pc
    /\ WebUnchanged

\* the client sends a frame
ClientSends(frame) ==
    /\ web.connected
    /\ web.inbox = <<>>
    /\ web' = [web EXCEPT !.inbox = <<frame>>, !.other = @ \/ frame # "ping"]
    /\ UNCHANGED <<pc, op>>
    /\ WebUnchanged

\* the client goes away
Disconnect ==
    /\ web.connected
    /\ web' = [web EXCEPT !.connected = FALSE, !.inbox = <<>>]
    /\ UNCHANGED <<pc, op>>
    /\ WebUnchanged

\* receive_json returns a frame: a ping is answered and the loop continues
\* at receive_json, invalid JSON continues there too, any other message
\* goes on to the queue
Receive ==
    /\ pc = "receive"
    /\ web.connected
    /\ web.inbox # <<>>
    /\ LET data == web.inbox[1]
       IN IF data = "ping"
          THEN /\ web' = [web EXCEPT !.inbox = <<>>, !.sent = @ \cup {Pong}]
               /\ pc' = "receive"
          ELSE IF data = "invalid"
          THEN /\ web' = [web EXCEPT !.inbox = <<>>]
               /\ pc' = "receive"
          ELSE /\ web' = [web EXCEPT !.inbox = <<>>]
               /\ pc' = "drain"
    /\ op' = "receive_json"
    /\ WebUnchanged

\* receive_json raises WebSocketDisconnect: the handler ends
HandlerCloses ==
    /\ pc = "receive"
    /\ ~web.connected
    /\ pc' = "closed"
    /\ op' = "disconnect"
    /\ UNCHANGED web
    /\ WebUnchanged

\* one round of the loop over the queue: the head is taken and sent if the
\* client is connected
DrainOne ==
    /\ pc = "drain"
    /\ web.queue # <<>>
    /\ LET message == Head(web.queue)
       IN web' = [web EXCEPT !.queue = Tail(@),
                             !.sent = IF web.connected THEN @ \cup {message} ELSE @]
    /\ op' = "send_json"
    /\ UNCHANGED pc
    /\ WebUnchanged

\* send_json raises: the message is put back and the loop over the queue left
DrainFails ==
    /\ pc = "drain"
    /\ web.queue # <<>>
    /\ web' = [web EXCEPT !.queue = Append(Tail(@), Head(@))]
    /\ pc' = "receive"
    /\ op' = "send_failed"
    /\ WebUnchanged

\* the queue is empty: asyncio.sleep(0.1), then back to receive_json
DrainDone ==
    /\ pc = "drain"
    /\ web.queue = <<>>
    /\ pc' = "receive"
    /\ op' = "sleep"
    /\ UNCHANGED web
    /\ WebUnchanged

NextWeb ==
    \/ \E text \in Texts : BotPrint(text)
    \/ Accept
    \/ KeepAlive
    \/ \E frame \in Frames : ClientSends(frame)
    \/ Disconnect
    \/ Receive
    \/ HandlerCloses
    \/ DrainOne
    \/ DrainFails
    \/ DrainDone

\* the handler keeps running and the client keeps sending its keep-alive
\* ping; nothing obliges the client to send anything else, to go away, or a
\* send to fail
SpecWeb ==
    /\ InitWeb
    /\ [][NextWeb]_vars
    /\ WF_vars(Accept)
    /\ WF_vars(Receive)
    /\ WF_vars(HandlerCloses)
    /\ WF_vars(DrainOne)
    /\ WF_vars(DrainDone)
    /\ WF_vars(ClientSends("ping"))

----------------------------------------------------------------------------
(* Properties *)

\* the tier key of the last close_hedge call
ClosedKey == HedgeKey(arg)

\* sum over the three tiers of size_i * level_i
Notional(s) ==
    RAdd(RAdd(RMul(s.hedge_sizes["h1"], s.hedge_levels["h1"]),
              RMul(s.hedge_sizes["h2"], s.hedge_levels["h2"])),
         RMul(s.hedge_sizes["h3"], s.hedge_levels["h3"]))

\* the last step ran an action that re-sizes the hedges
Resized == op \in {"buy_on_lower", "rebalance_at_entry"}

\* C1: when buy-the-dip or rebalance-at-entry fails on the leverage check,
\* the State after the failure equals the State before the action started:
\* current_eth, current_usd, total_spot_volume, hedge_sizes and every tier's
\* active flag, entry and entry time are unchanged.
C1_FailedActionRolledBack ==
    (Resized /\ err = "ValueError") =>
        /\ state.current_eth = pre.current_eth
        /\ state.current_usd = pre.current_usd
        /\ state.total_spot_volume = pre.total_spot_volume
        /\ state.hedge_sizes = pre.hedge_sizes
        /\ state.hedge_states = pre.hedge_states
        /\ state.hedge_entries = pre.hedge_entries
        /\ state.hedge_entry_times = pre.hedge_entry_times

\* C2: when the re-sizing completes without failing on a state with
\* deposit > 0, the sum of size_i * level_i is at most
\* max_leverage * deposit * hedge_allocation, and it fails exactly when the
\* sum is strictly greater.
C2_LeverageBound ==
    (Resized /\ RLt(Zero, state.deposit)) =>
        LET cap == RMul(RMul(R(MAX_LEVERAGE), state.deposit), HEDGE_ALLOCATION)
        IN /\ err = "none" => RLe(Notional(state), cap)
           /\ err # "none" <=> RLt(cap, Notional(state))

\* C2 witness: a re-sizing that failed on the leverage check
C2_Witness ==
    /\ Resized
    /\ RLt(Zero, state.deposit)
    /\ err = "ValueError"

\* C3: the size of every tier is >= 0 in every reachable state.
C3_SizesNonNegative ==
    \A k \in KeySet : RLe(Zero, state.hedge_sizes[k])

\* C4: a tier goes from inactive to active only if current_price <= its
\* level in that cycle, and a tier that stays active keeps its entry price
\* and entry time.
C4_OpenOnlyAtTrigger ==
    \A k \in KeySet :
        /\ (~pre.hedge_states[k] /\ state.hedge_states[k]) =>
               /\ op = "manage_hedges"
               /\ RLe(state.current_price, state.hedge_levels[k])
        /\ (pre.hedge_states[k] /\ state.hedge_states[k]) =>
               /\ state.hedge_entries[k] = pre.hedge_entries[k]
               /\ state.hedge_entry_times[k] = pre.hedge_entry_times[k]

\* C4 witness: hedge management at a price at or below the level of a tier
\* that is already active opens another tier
C4_Witness ==
    /\ op = "manage_hedges"
    /\ \E k, j \in KeySet :
          /\ ~pre.hedge_states[k] /\ state.hedge_states[k]
          /\ pre.hedge_states[j] /\ state.hedge_states[j]
          /\ RLt(state.current_price, pre.hedge_entries[j])

\* C5: for each tier the entry time is set iff the tier is active.
C5_EntryTimeIffActive ==
    \A k \in KeySet : (state.hedge_entry_times[k] # None) <=> state.hedge_states[k]

\* C5 witness: close_hedge has closed an active tier while another one is
\* still active
C5_Witness ==
    /\ op = "close_hedge"
    /\ pre.hedge_states[ClosedKey]
    /\ \E j \in KeySet : state.hedge_states[j]

\* C6: in every reachable state an inactive tier has size 0.
C6_InactiveTierHasNoSize ==
    \A k \in KeySet : ~state.hedge_states[k] => state.hedge_sizes[k] = Zero

\* C7: close_hedge on an inactive tier returns 0 and leaves the State
\* unchanged; a second close_hedge in a row on the same tier returns 0 and
\* leaves the State as the first call left it.
C7_CloseInactiveIsNoOp ==
    /\ (op = "close_hedge" /\ ~pre.hedge_states[ClosedKey]) =>
           (ret = Zero /\ state = pre)
    /\ (op = "close_hedge" /\ prev = <<"close_hedge", arg>>) =>
           (ret = Zero /\ state = pre)

\* C7 witness: close_hedge was called twice in a row on a tier that is
\* inactive but still carries a size
C7_Witness ==
    /\ op = "close_hedge"
    /\ prev = <<"close_hedge", arg>>
    /\ ~pre.hedge_states[ClosedKey]
    /\ pre.hedge_sizes[ClosedKey] # Zero

\* C8: close_hedge on an active tier returns size * (entry - current_price)
\* of that tier's records before the call, leaves the tier inactive with
\* size 0, entry 0 and no entry time, and changes neither the other tiers nor
\* current_eth, current_usd or the volume accumulators.
C8_CloseActive ==
    (op = "close_hedge" /\ pre.hedge_states[ClosedKey]) =>
        /\ ret = RMul(pre.hedge_sizes[ClosedKey],
                      RSub(pre.hedge_entries[ClosedKey], pre.current_price))
        /\ ~state.hedge_states[ClosedKey]
        /\ state.hedge_sizes[ClosedKey] = Zero
        /\ state.hedge_entries[ClosedKey] = Zero
        /\ state.hedge_entry_times[ClosedKey] = None
        /\ \A j \in KeySet \ {ClosedKey} :
              /\ state.hedge_states[j] = pre.hedge_states[j]
              /\ state.hedge_sizes[j] = pre.hedge_sizes[j]
              /\ state.hedge_entries[j] = pre.hedge_entries[j]
              /\ state.hedge_entry_times[j] = pre.hedge_entry_times[j]
        /\ state.current_eth = pre.current_eth
        /\ state.current_usd = pre.current_usd
        /\ state.total_spot_volume = pre.total_spot_volume
        /\ state.total_futures_volume = pre.total_futures_volume

\* C8 witness: close_hedge closed an active tier at a price other than its
\* entry price, with a size other than 0
C8_Witness ==
    /\ op = "close_hedge"
    /\ pre.hedge_states[ClosedKey]
    /\ ret # Zero

\* C9: in one cycle the boundary actions run in the order hedge management,
\* buy-the-dip, rebalance-at-entry, each exactly when its guard holds for
\* the cycle's price, and a later action starts from the State the earlier
\* ones left: buy-the-dip and rebalance-at-entry find every tier whose level
\* is at or above the price already opened.
C9_OrderedActions ==
    LET p == state.current_price
        hedge == RLt(p, state.entry_price)
        buy == RLe(p, state.buffer)
        rebalance == RLt(state.buffer, p)
                       /\ RLe(p, RMul(state.entry_price, Rat(101, 100)))
        expected == (IF hedge THEN <<"manage_hedges">> ELSE <<>>)
                    \o (IF buy THEN <<"buy_on_lower">> ELSE <<>>)
                    \o (IF rebalance THEN <<"rebalance_at_entry">> ELSE <<>>)
    IN /\ (cycles > 0 /\ pc \in {"idle", "stopped"}) => calls = expected
       /\ (cycles > 0 /\ pc \notin {"idle", "stopped"}) =>
              \E n \in 0..Len(expected) : calls = SubSeq(expected, 1, n)
       /\ Resized =>
              \A k \in KeySet :
                  RLe(p, state.hedge_levels[k]) => pre.hedge_states[k]

\* C9 witness: a cycle at a price at or below buffer ran hedge management,
\* which opened tiers, and then buy-the-dip
C9_Witness ==
    /\ pc = "idle"
    /\ calls = <<"manage_hedges", "buy_on_lower">>
    /\ state.current_price = state.buffer
    /\ \A k \in KeySet : state.hedge_entries[k] = state.current_price
    /\ state.current_usd = Zero
    /\ RLt(Zero, state.total_spot_volume)

\* C10: buy-the-dip at current_price > 0 with current_usd = u >= 0 leaves
\* current_usd = 0, current_eth increased by u / current_price and
\* total_spot_volume increased by u.
C10_BuyOnLower ==
    (op = "buy_on_lower" /\ RLt(Zero, pre.current_price)
        /\ RLe(Zero, pre.current_usd)) =>
        /\ state.current_usd = Zero
        /\ state.current_eth =
               RAdd(pre.current_eth, RDiv(pre.current_usd, pre.current_price))
        /\ state.total_spot_volume = RAdd(pre.total_spot_volume, pre.current_usd)

\* C10 witness: buy-the-dip ran with cash to convert
C10_Witness ==
    /\ op = "buy_on_lower"
    /\ RLt(Zero, pre.current_usd)
    /\ RLt(Zero, pre.current_price)

\* the tiers the last step opened
Opened == {k \in KeySet : ~pre.hedge_states[k] /\ state.hedge_states[k]}

\* the P&L close_hedge returns for tier k of the State before the last step
PrePnl(k) ==
    IF pre.hedge_states[k]
    THEN RMul(pre.hedge_sizes[k], RSub(pre.hedge_entries[k], pre.current_price))
    ELSE Zero

\* C11: a rebalance-at-entry that does not fail halves current_eth, adds
\* (previous current_eth / 2) * current_price to current_usd and to
\* total_spot_volume, closes tier 3 before tier 2, leaves both inactive and
\* leaves tier 1's active flag, entry price and entry time unchanged.
C11_RebalanceAtEntry ==
    (op = "rebalance_at_entry" /\ err = "none") =>
        LET proceeds == RMul(RMul(pre.current_eth, Rat(1, 2)), pre.current_price)
        IN /\ RMul(state.current_eth, R(2)) = pre.current_eth
           /\ state.current_usd = RAdd(pre.current_usd, proceeds)
           /\ state.total_spot_volume = RAdd(pre.total_spot_volume, proceeds)
           /\ closed = <<3, 2>>
           /\ ~state.hedge_states["h3"]
           /\ ~state.hedge_states["h2"]
           /\ state.hedge_states["h1"] = pre.hedge_states["h1"]
           /\ state.hedge_entries["h1"] = pre.hedge_entries["h1"]
           /\ state.hedge_entry_times["h1"] = pre.hedge_entry_times["h1"]

\* C11 witness: a rebalance-at-entry that did not fail found all three tiers
\* active with a base-asset holding to sell
C11_Witness ==
    /\ op = "rebalance_at_entry"
    /\ err = "none"
    /\ \A k \in KeySet : pre.hedge_states[k]
    /\ RLt(Zero, pre.current_eth)

\* C12: after hedge management at price p every tier whose level is >= p is
\* active; the tiers it opens are opened in ascending index order, each with
\* entry price p and adding size * p to total_futures_volume.
C12_GapOpensAllCrossedTiers ==
    op = "manage_hedges" =>
        LET p == state.current_price
            added(k) == IF k \in Opened THEN RMul(pre.hedge_sizes[k], p) ELSE Zero
        IN /\ \A k \in KeySet : RLe(p, state.hedge_levels[k]) => state.hedge_states[k]
           /\ \A k \in Opened : state.hedge_entries[k] = p
           /\ \A i, j \in 1..3 :
                 (i < j /\ HedgeKey(i) \in Opened /\ HedgeKey(j) \in Opened) =>
                     state.hedge_entry_times[HedgeKey(i)][1]
                         <= state.hedge_entry_times[HedgeKey(j)][1]
           /\ state.total_futures_volume =
                  RAdd(RAdd(RAdd(pre.total_futures_volume, added("h1")),
                            added("h2")), added("h3"))

\* C12 witness: one hedge management opened all three tiers, each with a
\* size other than 0
C12_Witness ==
    /\ op = "manage_hedges"
    /\ Opened = KeySet
    /\ \A k \in KeySet : pre.hedge_sizes[k] # Zero

\* C13: exit_all_positions closes tiers 1, 2, 3 in that order, returns the
\* sum of the three close_hedge P&Ls + current_eth * current_price +
\* current_usd - deposit, and leaves all three tiers inactive.
C13_ExitAllPositions ==
    op = "exit_all_positions" =>
        /\ closed = <<1, 2, 3>>
        /\ ret = RSub(RAdd(RAdd(RAdd(RAdd(PrePnl("h1"), PrePnl("h2")), PrePnl("h3")),
                                RMul(pre.current_eth, pre.current_price)),
                           pre.current_usd),
                      pre.deposit)
        /\ \A k \in KeySet : ~state.hedge_states[k]

\* C13 witness: exit_all_positions closed a tier with a P&L other than 0
C13_Witness ==
    /\ op = "exit_all_positions"
    /\ \E k \in KeySet : PrePnl(k) # Zero

\* C14: after exit_all_positions the State holds no base asset.
C14_ExitLiquidatesHolding ==
    op = "exit_all_positions" => state.current_eth = Zero

\* C15: no step decreases total_spot_volume or total_futures_volume.
C15_VolumesNeverDecrease ==
    /\ RLe(pre.total_spot_volume, state.total_spot_volume)
    /\ RLe(pre.total_futures_volume, state.total_futures_volume)

\* C15 witness: a cycle below buffer opened tiers with a size, adding to the
\* futures volume, and its buy-the-dip left negative sizes
C15_Witness ==
    /\ op = "buy_on_lower"
    /\ RLt(state.current_price, state.buffer)
    /\ RLt(Zero, state.total_futures_volume)
    /\ RLt(pre.total_spot_volume, state.total_spot_volume)
    /\ \A k \in KeySet : RLt(state.hedge_sizes[k], Zero)

\* C16: current_eth >= 0 and current_usd >= 0 in every reachable state.
C16_HoldingsNonNegative ==
    /\ RLe(Zero, state.current_eth)
    /\ RLe(Zero, state.current_usd)

\* C16 witness: a rebalance-at-entry rebuilt the cash after a buy-the-dip had
\* spent all of it
C16_Witness ==
    /\ op = "rebalance_at_entry"
    /\ pre.current_usd = Zero
    /\ RLt(Zero, state.current_usd)
    /\ RLt(Zero, state.current_eth)

\* C17: for every price > 0 and deposit > 0 initialize_strategy returns a
\* State with buffer < lower < entry_price < upper, current_eth * price +
\* current_usd = SPOT_ALLOCATION * deposit with current_usd half of it, hedge
\* levels h1 > h2 > h3 all above buffer, and all three tiers inactive.
C17_InitializeValid ==
    (op = "initialize_strategy" /\ RLt(Zero, arg[1]) /\ RLt(Zero, arg[2])) =>
        LET allocation == RMul(Rat(75, 100), arg[2])
        IN /\ err = "none"
           /\ state.entry_price = arg[1]
           /\ RLt(state.buffer, state.lower)
           /\ RLt(state.lower, state.entry_price)
           /\ RLt(state.entry_price, state.upper)
           /\ RAdd(RMul(state.current_eth, arg[1]), state.current_usd) = allocation
           /\ RMul(state.current_usd, R(2)) = allocation
           /\ RLt(state.hedge_levels["h2"], state.hedge_levels["h1"])
           /\ RLt(state.hedge_levels["h3"], state.hedge_levels["h2"])
           /\ \A k \in KeySet : RLt(state.buffer, state.hedge_levels[k])
           /\ \A k \in KeySet : ~state.hedge_states[k]

\* C17 witness: initialize_strategy returned for a positive price and a
\* positive deposit whose quotient is not an integer
C17_Witness ==
    /\ op = "initialize_strategy"
    /\ RLt(Zero, arg[1])
    /\ RLt(Zero, arg[2])
    /\ pc = "idle"
    /\ state.current_eth.d # 1

\* C18: initialize_strategy called with a non-positive price or a
\* non-positive deposit fails with InvalidInput and returns no State.
C18_InitializeRejectsNonPositive ==
    (op = "initialize_strategy" /\ (RLe(arg[1], Zero) \/ RLe(arg[2], Zero))) =>
        /\ err = "InvalidInput"
        /\ state = pre

\* C19: from_dict(to_dict(s)) equals s on every State field, including the
\* entry time of each tier and the status, for any combination of active and
\* inactive tiers, entry times set or null, and any status.
C19_SnapshotRoundTrip ==
    op = "from_dict" =>
        /\ DOMAIN state = DOMAIN pre
        /\ \A field \in DOMAIN pre : state[field] = pre[field]
        /\ \A k \in KeySet : state.hedge_entry_times[k] = pre.hedge_entry_times[k]
        /\ state.status = pre.status

\* C19 witness: a round trip of a State with an active tier entered on a half
\* hour, a tier without entry time and a status other than the initial one
C19_Witness ==
    /\ op = "from_dict"
    /\ \E k \in KeySet : pre.hedge_states[k] /\ pre.hedge_entry_times[k] = <<1>>
    /\ \E k \in KeySet : ~pre.hedge_states[k] /\ pre.hedge_entry_times[k] = None
    /\ pre.status = "REBALANCING"

\* hours between the entry of tier k and the last clock reading
HoursElapsed(k) == Rat((now - state.hedge_entry_times[k][1]) * 30, 60)

\* C20: the funding cost is the sum over the active tiers of size *
\* current_price * FUNDING_RATE * hours elapsed / HOURS_PER_FUNDING; an
\* inactive tier contributes 0 whatever time has elapsed, an active tier
\* with 0 hours elapsed or without entry time contributes 0.
C20_FundingCost ==
    op = "calculate_funding_cost" =>
        LET contributes(k) == state.hedge_states[k] /\ state.hedge_entry_times[k] # None
            share(k) ==
                IF contributes(k)
                THEN RDiv(RMul(RMul(RMul(state.hedge_sizes[k], state.current_price),
                                    Rat(1, 10000)),
                               HoursElapsed(k)),
                          R(8))
                ELSE Zero
        IN /\ ret = RAdd(RAdd(share("h1"), share("h2")), share("h3"))
           /\ \A k \in KeySet :
                 (contributes(k) /\ state.hedge_entry_times[k] = <<now>>) =>
                     share(k) = Zero
           /\ (\A k \in KeySet : ~state.hedge_states[k]) => ret = Zero

\* C20 witness: a funding cost other than 0 of a State with an inactive
\* tier that has a size and an entry time in the past, and an active tier
\* entered at the clock reading
C20_Witness ==
    /\ op = "calculate_funding_cost"
    /\ ret # Zero
    /\ \E k \in KeySet : /\ ~state.hedge_states[k]
                         /\ state.hedge_sizes[k] # Zero
                         /\ state.hedge_entry_times[k] = <<1>>
    /\ \E k \in KeySet : state.hedge_states[k] /\ state.hedge_entry_times[k] = <<now>>

\* C21: calculate_pnl never fails: total = current_eth * current_price +
\* current_usd - deposit, percentage = total / deposit * 100 when the deposit
\* is > 0 and percentage = 0 when the deposit is <= 0.
C21_PnlNeverFails ==
    op = "calculate_pnl" =>
        LET total == RSub(RAdd(RMul(state.current_eth, state.current_price),
                               state.current_usd),
                          state.deposit)
        IN /\ err = "none"
           /\ ret.total = total
           /\ RLt(Zero, state.deposit) =>
                  RMul(ret.percentage, state.deposit) = RMul(total, R(100))
           /\ RLe(state.deposit, Zero) => ret.percentage = Zero

\* C21 witness: the P&L of a State with deposit 0 and a holding of value
C21_Witness ==
    /\ op = "calculate_pnl"
    /\ state.deposit = Zero
    /\ ret.total # Zero

C25_LevelAtBufferIsGuarded ==
    op = "calculate_hedge_sizes" =>
        \A k \in KeySet :
            pre.hedge_levels[k] = pre.buffer =>
                /\ err = "none"
                /\ state.hedge_sizes[k] = Zero

\* the last step ended an evaluation cycle
CycleEnded == pc = "idle" /\ op \in {"skip", "buy_on_lower", "rebalance_at_entry"}

\* the tiers that are active
Active == {k \in KeySet : state.hedge_states[k]}

\* C22: a cycle at price = buffer ends with current_usd = 0, buy-the-dip
\* having run; a cycle at price = entry_price * 1.005 runs rebalance-at-entry,
\* which sells half of the base-asset holding and leaves tiers 2 and 3
\* inactive, whether they were open or not.
C22_DipThenRecovery ==
    /\ (CycleEnded /\ state.current_price = state.buffer) =>
           /\ state.current_usd = Zero
           /\ calls = <<"manage_hedges", "buy_on_lower">>
    /\ (CycleEnded /\ state.current_price = RMul(state.entry_price, Rat(1005, 1000))) =>
           /\ op = "rebalance_at_entry"
           /\ RMul(state.current_eth, R(2)) = pre.current_eth
           /\ ~state.hedge_states["h2"]
           /\ ~state.hedge_states["h3"]

\* C22 witness: the cycle at entry_price * 1.005 followed a cycle at buffer
\* that opened all tiers and spent all cash: it closed tiers 2 and 3
C22_Witness ==
    /\ CycleEnded
    /\ cycles = 2
    /\ state.current_price = RMul(state.entry_price, Rat(1005, 1000))
    /\ pre.current_usd = Zero
    /\ \A k \in KeySet : pre.hedge_states[k] /\ pre.hedge_entries[k] = pre.buffer
    /\ RLt(Zero, state.current_eth)
    /\ Active = {"h1"}

\* C23: entry_price, deposit, upper, lower, buffer, initial_eth and the three
\* hedge_levels are the same after every step of a cycle, every close_hedge
\* and exit_all_positions as before it.
C23_FixedAtInitialization ==
    op # "initialize_strategy" =>
        /\ state.entry_price = pre.entry_price
        /\ state.deposit = pre.deposit
        /\ state.upper = pre.upper
        /\ state.lower = pre.lower
        /\ state.buffer = pre.buffer
        /\ state.initial_eth = pre.initial_eth
        /\ \A k \in KeySet : state.hedge_levels[k] = pre.hedge_levels[k]

\* C23 witness: a rebalance-at-entry at a price other than entry_price, in a
\* second cycle, with the base-asset holding no longer the initial one
C23_Witness ==
    /\ op = "rebalance_at_entry"
    /\ cycles = 2
    /\ state.current_price # state.entry_price
    /\ state.current_eth # state.initial_eth
    /\ state.entry_price = R(100)

\* the clock readings three successive datetime.now() calls can return
ClockReadings ==
    {t \in [1..3 -> 0..MaxClock] : t[1] <= t[2] /\ t[2] <= t[3]}

\* C26: two runs of hedge management on equal States at the same price end
\* in equal States, hedge_entry_times included.
C26_DeterministicInInputs ==
    op = "manage_hedges" =>
        \A t1, t2 \in ClockReadings : manage_hedges(pre, t1) = manage_hedges(pre, t2)

\* C27: an iteration of the trading loop in which the price is unavailable
\* (None or 0) runs no strategy function, leaves the State as it was and
\* leaves the loop running.
C27_UnavailablePriceSkipsIteration ==
    (op \in {"scan_market", "main_loop"} /\ (arg = None \/ arg = <<Zero>>)) =>
        /\ op = "scan_market"
        /\ calls = <<>>
        /\ state = pre
        /\ state.current_price = pre.current_price
        /\ pc = "idle"

\* C27 witness: an iteration without price after a cycle that opened a tier
C27_Witness ==
    /\ op = "scan_market"
    /\ arg = None
    /\ cycles = 1
    /\ Active # {}
    /\ state.current_price # state.entry_price

\* C28: no evaluation cycle runs both buy-the-dip and rebalance-at-entry;
\* only hedge management runs together with either of them.
C28_BuyAndRebalanceExclusive ==
    /\ calls \in {<<>>, <<"manage_hedges">>,
                  <<"manage_hedges", "buy_on_lower">>,
                  <<"rebalance_at_entry">>,
                  <<"manage_hedges", "rebalance_at_entry">>}
    /\ pc \in {"buy", "rebalance"} =>
           /\ state.buffer = pre.buffer
           /\ state.entry_price = pre.entry_price

\* C28 witness: a cycle ran hedge management and then rebalance-at-entry
C28_Witness ==
    /\ pc = "idle"
    /\ calls = <<"manage_hedges", "rebalance_at_entry">>
    /\ err = "none"
    /\ state.hedge_states["h1"]

\* C29: a cycle at a price in (buffer, entry_price * 1.01] ends with tiers 2
\* and 3 inactive; the active tiers at the end of a cycle are none, tier 1 or
\* all three, and a tier 2 or 3 active at the end of a cycle was opened at a
\* price <= buffer.
C29_ActiveSetsAtCycleEnd ==
    CycleEnded =>
        /\ (/\ RLt(state.buffer, state.current_price)
            /\ RLe(state.current_price, RMul(state.entry_price, Rat(101, 100)))) =>
               (~state.hedge_states["h2"] /\ ~state.hedge_states["h3"])
        /\ Active \in {{}, {"h1"}, KeySet}
        /\ \A k \in {"h2", "h3"} :
               state.hedge_states[k] => RLe(state.hedge_entries[k], state.buffer)

\* C29 witness: a cycle whose hedge management opened tiers 1 and 2 ended
\* with tier 1 alone
C29_Witness ==
    /\ CycleEnded
    /\ calls = <<"manage_hedges", "rebalance_at_entry">>
    /\ pre.hedge_states["h2"]
    /\ pre.hedge_entries["h2"] = pre.current_price
    /\ ~pre.hedge_states["h3"]
    /\ Active = {"h1"}

\* C30: no step of an evaluation cycle closes an open tier 1 or changes its
\* entry price or entry time; exit_all_positions closes it.
C30_TierOneStaysOpen ==
    /\ (/\ op \in {"main_loop", "manage_hedges", "buy_on_lower",
                   "rebalance_at_entry", "skip"}
        /\ pre.hedge_states["h1"]) =>
           /\ state.hedge_states["h1"]
           /\ state.hedge_entries["h1"] = pre.hedge_entries["h1"]
           /\ state.hedge_entry_times["h1"] = pre.hedge_entry_times["h1"]
    /\ op = "exit_all_positions" => ~state.hedge_states["h1"]

\* C30 witness: a rebalance-at-entry above entry_price, in the cycle after
\* the one that opened tier 1, left tier 1 open
C30_Witness ==
    /\ op = "rebalance_at_entry"
    /\ cycles = 2
    /\ RLt(state.entry_price, state.current_price)
    /\ pre.hedge_states["h1"]
    /\ state.hedge_states["h1"]
    /\ RLt(state.hedge_entries["h1"], state.entry_price)

\* C31: every cycle at a price in (buffer, entry_price * 1.01] runs
\* rebalance-at-entry, the first cycle at the entry price included; after n
\* such cycles in a row current_eth is its starting value divided by 2^n.
C31_RebalanceEveryCycleInBand ==
    /\ (/\ CycleEnded
        /\ RLt(state.buffer, state.current_price)
        /\ RLe(state.current_price, RMul(state.entry_price, Rat(101, 100)))) =>
           /\ op = "rebalance_at_entry"
           /\ RMul(state.current_eth, R(2)) = pre.current_eth
    /\ pc = "idle" => RMul(state.current_eth, R(2 ^ cycles)) = state.initial_eth

\* C31 witness: two cycles in a row, the second at the entry price, left a
\* quarter of the initial holding
C31_Witness ==
    /\ CycleEnded
    /\ cycles = 2
    /\ err = "none"
    /\ state.current_price = state.entry_price
    /\ RMul(state.current_eth, R(4)) = state.initial_eth

\* the value of the spot sleeve of s at its current_price
SpotValue(s) == RAdd(RMul(s.current_eth, s.current_price), s.current_usd)

\* C32: buy-the-dip and rebalance-at-entry leave current_eth * current_price
\* + current_usd as it was; the P&L of the tiers rebalance-at-entry closes is
\* not added to it.
C32_SpotValueConserved ==
    op \in {"buy_on_lower", "rebalance_at_entry"} =>
        /\ state.current_price = pre.current_price
        /\ RAdd(RMul(state.current_eth, state.current_price), state.current_usd)
             = RAdd(RMul(pre.current_eth, pre.current_price), pre.current_usd)

\* C32 witness: a rebalance-at-entry that closed tier 3 with a P&L other
\* than 0
C32_Witness ==
    /\ op = "rebalance_at_entry"
    /\ pre.hedge_states["h3"]
    /\ PrePnl("h3") # Zero
    /\ ~state.hedge_states["h3"]
    /\ SpotValue(state) = SpotValue(pre)

\* C33: once create_order has returned, _create_market_order eventually
\* returns the order status or raises, whatever final status the exchange
\* reports for the order.
C33_OrderCallTerminates == (pc = "poll") ~> (pc \in {"returned", "raised"})

\* a line printed by the bot is on message_queue
Queued(line) == \E i \in 1..Len(web.queue) : web.queue[i].message = line

Lines == {strip(text) : text \in Texts} \ {<<>>}

\* C34: every message put on message_queue while a client is connected and
\* sends only keep-alive pings is eventually sent to the client; the claim
\* is released when the client sends something else or is gone.
C34_QueuedMessageSent ==
    \A line \in Lines :
        (Queued(line) /\ web.connected /\ ~web.other)
            ~> \/ [message |-> line, error |-> FALSE] \in web.sent
               \/ web.other
               \/ ~web.connected

====
